---- MODULE Spec2Model ----
(***************************************************************************)
(* The per-order-book lending state object of tomox/lending_state          *)
(* (lendingExchangeState): four lazily opened tries, four live caches of   *)
(* sub-state objects with their dirty sets, the memoized database error    *)
(* and the one-shot owner notification.                                    *)
(*                                                                         *)
(* Every method of state_lendingbook.go is an operator on the record that  *)
(* models the receiver (self) and returns the receiver after the call,     *)
(* together with the call's result.  The actions at the end apply one      *)
(* method call to one of the objects in the heap `st`.                     *)
(*                                                                         *)
(* The trie, the rlp codec and the three sub-state types are code that is  *)
(* not in state_lendingbook.go; they are modelled from their description   *)
(* (sections 4.2, 4.3 and 6 of the specification) and from the way         *)
(* state_lendingbook.go calls them.                                        *)
(***************************************************************************)
EXTENDS Integers, Sequences, FiniteSets, TLC

VARIABLES st, db, last, left

vars == <<st, db, last, left>>

(***************************************************************************)
(* Bounds.                                                                 *)
(***************************************************************************)
MaxKey == 2
MaxAmount == 1
MaxOps == 2
MaxDeepOps == 3
MaxReloadOps == 6
MaxRoundTripOps == 4
MaxNonce == 1

(* Prices, rates, order ids and times: 256-bit hashes, ordered as numbers  *)
(* (big-endian bytes).                                                     *)
Keys == 1..MaxKey

(* common.Hash{}: the sentinel the extremal queries return.                *)
EmptyHash == 0

(* The root of an empty trie, as stored in itemList.Root.                  *)
EmptyRoot == 1

(* The identifier of the order book; it is no price, rate, id or time.     *)
LendingBook == MaxKey + 1

(***************************************************************************)
(* Errors.  nil is NoErr.                                                  *)
(***************************************************************************)
NoErr == "nil"
ErrMissingNode == "missing trie node"
ErrLendingsTrie == "can't create Lendings trie"
ErrBidsTrie == "can't create bids trie"
ErrCommit == "commit failed"

(***************************************************************************)
(* The trie capability.  A handle is nil (open = FALSE) or holds its       *)
(* leaves, a function from the keys present to their non-empty values.     *)
(* A root hash is modelled by the leaves it commits to (an ideal hash):    *)
(* HashOf(l) for a trie with leaves l, NoRoot for common.Hash{} in a root  *)
(* field.  `fail` is the outcome of the database access the call makes.    *)
(***************************************************************************)
NilTrie == [open |-> FALSE, leaves |-> <<>>]

TrieOf(leaves) == [open |-> TRUE, leaves |-> leaves]

NoRoot == <<>>

HashOf(leaves) == <<leaves>>

Without(f, key) == [k \in (DOMAIN f) \ {key} |-> f[k]]

With(f, key, value) == (key :> value) @@ f

OpenStorageTrie(d, root) ==
    IF root = NoRoot \/ root = HashOf(<<>>)
    THEN [tr |-> TrieOf(<<>>), err |-> NoErr]
    ELSE IF root \in d.nodes
         THEN [tr |-> TrieOf(root[1]), err |-> NoErr]
         ELSE [tr |-> NilTrie, err |-> ErrMissingNode]

TryGet(tr, key, fail) ==
    IF fail THEN [enc |-> <<>>, err |-> ErrMissingNode]
    ELSE IF key \in DOMAIN tr.leaves
         THEN [enc |-> tr.leaves[key], err |-> NoErr]
         ELSE [enc |-> <<>>, err |-> NoErr]

TryDelete(tr, key, fail) ==
    IF fail THEN [tr |-> tr, err |-> ErrMissingNode]
    ELSE [tr |-> [tr EXCEPT !.leaves = Without(@, key)], err |-> NoErr]

TryUpdate(tr, key, value, fail) ==
    IF fail THEN [tr |-> tr, err |-> ErrMissingNode]
    ELSE IF Len(value) = 0 THEN TryDelete(tr, key, fail)
    ELSE [tr |-> [tr EXCEPT !.leaves = With(@, key, value)], err |-> NoErr]

TrieHash(tr) == HashOf(tr.leaves)

CopyTrie(tr) == [open |-> tr.open, leaves |-> tr.leaves]

MinOf(S) == CHOOSE x \in S : \A y \in S : x <= y

MaxOf(S) == CHOOSE x \in S : \A y \in S : x >= y

(* The key is returned as its bytes: <<k>>, or <<>> when there is none.    *)
TryGetBestLeftKeyAndValue(tr, fail) ==
    IF fail THEN [encKey |-> <<>>, encValue |-> <<>>, err |-> ErrMissingNode]
    ELSE IF DOMAIN tr.leaves = {}
         THEN [encKey |-> <<>>, encValue |-> <<>>, err |-> NoErr]
         ELSE [encKey |-> <<MinOf(DOMAIN tr.leaves)>>,
               encValue |-> tr.leaves[MinOf(DOMAIN tr.leaves)], err |-> NoErr]

TryGetBestRightKeyAndValue(tr, fail) ==
    IF fail THEN [encKey |-> <<>>, encValue |-> <<>>, err |-> ErrMissingNode]
    ELSE IF DOMAIN tr.leaves = {}
         THEN [encKey |-> <<>>, encValue |-> <<>>, err |-> NoErr]
         ELSE [encKey |-> <<MaxOf(DOMAIN tr.leaves)>>,
               encValue |-> tr.leaves[MaxOf(DOMAIN tr.leaves)], err |-> NoErr]

BytesToHash(encKey) == encKey[1]

BigToHash(n) == n

(***************************************************************************)
(* The canonical encoding.  An itemList is (Root, Volume), a LendingItem   *)
(* is (OrderID, Quantity); their encodings are the two fields in order.    *)
(* Any other byte string does not decode.                                  *)
(***************************************************************************)
EncodeItemList(data) == <<data.Root, data.Volume>>

CanDecode(enc) == Len(enc) = 2

DecodeItemList(enc) == [Root |-> enc[1], Volume |-> enc[2]]

EncodeLendingItem(data) == <<data.OrderID, data.Quantity>>

DecodeLendingItem(enc) == [OrderID |-> enc[1], Quantity |-> enc[2]]

BadBytes == <<EmptyHash>>

(***************************************************************************)
(* The sub-state objects.  Each holds the key it was built for, its        *)
(* record and the dirty-marking callback it was given: a method value      *)
(* (the receiver it is bound to and the method), or nil.                   *)
(***************************************************************************)
NilCallback == [self |-> "nil", mark |-> "nil"]

MethodValue(ptr, mark) == [self |-> ptr, mark |-> mark]

NilObj == [nil |-> TRUE]

(* itemList{}                                                              *)
ZeroItemList == [Root |-> EmptyHash, Volume |-> 0]

(* The hash of the nested trie of a list of the given volume.              *)
NestedRoot(volume) == EmptyRoot + volume

newItemListState(lendingBook, price, data, onDirty) ==
    [lendingBook |-> lendingBook, key |-> price, data |-> data, onDirty |-> onDirty]

newLiquidationTimeState(lendingBook, time, data, onDirty) ==
    [lendingBook |-> lendingBook, key |-> time, data |-> data, onDirty |-> onDirty]

newLendinItemState(lendingBook, orderId, data, onDirty) ==
    [lendingBook |-> lendingBook, key |-> orderId, data |-> data, onDirty |-> onDirty]

(* itemListState.empty, liquidationTimeState.empty: no root and no summary *)
(* content remain: the nested trie, as it is now, is the empty trie and    *)
(* the volume is zero.  (data.Root is the nested hash as of the last       *)
(* updateRoot; a list emptied since then is empty.)                        *)
listEmpty(obj) ==
    obj.data.Volume = 0 /\ NestedRoot(obj.data.Volume) = EmptyRoot

(* lendingItemState.empty: the zero value of the record.                   *)
itemEmpty(obj) == obj.data.Quantity = 0

(* itemListState.updateRoot: flush the nested trie and store its hash.     *)
listUpdateRoot(obj) == [obj EXCEPT !.data.Root = NestedRoot(obj.data.Volume)]

(* itemListState.deepCopy, liquidationTimeState.deepCopy,                  *)
(* lendingItemState.deepCopy: a new object with the callback given.        *)
subDeepCopy(obj, onDirty) == [obj EXCEPT !.onDirty = onDirty]

(***************************************************************************)
(* lendingExchangeState.  ptr is the address of the object (what a method  *)
(* value of it is bound to); onDirty is TRUE while the owner's callback is *)
(* set; notified lists the hashes the owner's callback was invoked with;   *)
(* panicked records a nil-pointer dereference.                             *)
(***************************************************************************)
newStateExchanges(ptr, hash, data, onDirty) ==
    [ptr |-> ptr,
     lendingBook |-> hash,
     data |-> data,
     dbErr |-> NoErr,
     investingTrie |-> NilTrie,
     borrowingTrie |-> NilTrie,
     lendingTrie |-> NilTrie,
     liquidationTimeTrie |-> NilTrie,
     investingStates |-> <<>>,
     borrowingStates |-> <<>>,
     lendingItemStates |-> <<>>,
     liquidationTimeStates |-> <<>>,
     investingStatesDirty |-> {},
     borrowingStatesDirty |-> {},
     lendingItemStatesDirty |-> {},
     liquidationTimestatesDirty |-> {},
     onDirty |-> onDirty,
     notified |-> <<>>,
     panicked |-> FALSE]

(* Mutant: the last error wins.                                            *)
setError_Overwrite(self, err) == [self EXCEPT !.dbErr = err]

setError(self, err) ==
    IF self.dbErr = NoErr THEN [self EXCEPT !.dbErr = err] ELSE self

(*                              Get Trie                                   *)

getLendingItemTrie(self, d) ==
    IF ~self.lendingTrie.open
    THEN LET r == OpenStorageTrie(d, self.data.LendingItemRoot)
         IN IF r.err # NoErr
            THEN setError([self EXCEPT !.lendingTrie = OpenStorageTrie(d, NoRoot).tr],
                          ErrLendingsTrie)
            ELSE [self EXCEPT !.lendingTrie = r.tr]
    ELSE self

(* Mutant: the failure to open is not memoized.                            *)
getInvestingTrie_NoMemo(self, d) ==
    IF ~self.investingTrie.open
    THEN LET r == OpenStorageTrie(d, self.data.InvestingRoot)
         IN IF r.err # NoErr
            THEN [self EXCEPT !.investingTrie = OpenStorageTrie(d, NoRoot).tr]
            ELSE [self EXCEPT !.investingTrie = r.tr]
    ELSE self

getInvestingTrie(self, d) ==
    IF ~self.investingTrie.open
    THEN LET r == OpenStorageTrie(d, self.data.InvestingRoot)
         IN IF r.err # NoErr
            THEN setError([self EXCEPT !.investingTrie = OpenStorageTrie(d, NoRoot).tr],
                          ErrLendingsTrie)
            ELSE [self EXCEPT !.investingTrie = r.tr]
    ELSE self

getBorrowingTrie(self, d) ==
    IF ~self.borrowingTrie.open
    THEN LET r == OpenStorageTrie(d, self.data.BorrowingRoot)
         IN IF r.err # NoErr
            THEN setError([self EXCEPT !.borrowingTrie = OpenStorageTrie(d, NoRoot).tr],
                          ErrBidsTrie)
            ELSE [self EXCEPT !.borrowingTrie = r.tr]
    ELSE self

getLiquidationTimeTrie(self, d) ==
    IF ~self.liquidationTimeTrie.open
    THEN LET r == OpenStorageTrie(d, self.data.LiquidationTimeRoot)
         IN IF r.err # NoErr
            THEN setError([self EXCEPT !.liquidationTimeTrie = OpenStorageTrie(d, NoRoot).tr],
                          ErrBidsTrie)
            ELSE [self EXCEPT !.liquidationTimeTrie = r.tr]
    ELSE self

(*                              Get State                                  *)

getBorrowingOrderList(self, d, rate, fail) ==
    IF rate \in DOMAIN self.borrowingStates
    THEN [self |-> self, obj |-> self.borrowingStates[rate]]
    ELSE LET s1 == getBorrowingTrie(self, d)
             r == TryGet(s1.borrowingTrie, rate, fail)
             obj == newItemListState(self.lendingBook, rate, DecodeItemList(r.enc),
                                     MethodValue(self.ptr, "MarkBorrowingDirty"))
         IN IF Len(r.enc) = 0 THEN [self |-> setError(s1, r.err), obj |-> NilObj]
            ELSE IF ~CanDecode(r.enc) THEN [self |-> s1, obj |-> NilObj]
            ELSE [self |-> [s1 EXCEPT !.borrowingStates = With(@, rate, obj)],
                  obj |-> obj]

getInvestingOrderList(self, d, rate, fail) ==
    IF rate \in DOMAIN self.investingStates
    THEN [self |-> self, obj |-> self.investingStates[rate]]
    ELSE LET s1 == getInvestingTrie(self, d)
             r == TryGet(s1.investingTrie, rate, fail)
             obj == newItemListState(self.lendingBook, rate, DecodeItemList(r.enc),
                                     MethodValue(self.ptr, "MarkBorrowingDirty"))
         IN IF Len(r.enc) = 0 THEN [self |-> setError(s1, r.err), obj |-> NilObj]
            ELSE IF ~CanDecode(r.enc) THEN [self |-> s1, obj |-> NilObj]
            ELSE [self |-> [s1 EXCEPT !.investingStates = With(@, rate, obj)],
                  obj |-> obj]

getLiquidationTimeOrderList(self, d, time, fail) ==
    IF time \in DOMAIN self.liquidationTimeStates
    THEN [self |-> self, obj |-> self.liquidationTimeStates[time]]
    ELSE LET s1 == getLiquidationTimeTrie(self, d)
             r == TryGet(s1.liquidationTimeTrie, time, fail)
             obj == newLiquidationTimeState(self.lendingBook, time, DecodeItemList(r.enc),
                                            MethodValue(self.ptr, "MarkInvestingDirty"))
         IN IF Len(r.enc) = 0 THEN [self |-> setError(s1, r.err), obj |-> NilObj]
            ELSE IF ~CanDecode(r.enc) THEN [self |-> s1, obj |-> NilObj]
            ELSE [self |-> [s1 EXCEPT !.liquidationTimeStates = With(@, time, obj)],
                  obj |-> obj]

getLendingItem(self, d, lendingId, fail) ==
    IF lendingId \in DOMAIN self.lendingItemStates
    THEN [self |-> self, obj |-> self.lendingItemStates[lendingId]]
    ELSE LET s1 == getLendingItemTrie(self, d)
             r == TryGet(s1.lendingTrie, lendingId, fail)
             obj == newLendinItemState(self.lendingBook, lendingId, DecodeLendingItem(r.enc),
                                       MethodValue(self.ptr, "MarkLendingItemDirty"))
         IN IF Len(r.enc) = 0 THEN [self |-> setError(s1, r.err), obj |-> NilObj]
            ELSE IF ~CanDecode(r.enc) THEN [self |-> s1, obj |-> NilObj]
            ELSE [self |-> [s1 EXCEPT !.lendingItemStates = With(@, lendingId, obj)],
                  obj |-> obj]

(*                             Update Trie                                 *)
(* The loops range over the live cache; failKeys are the keys whose trie   *)
(* write fails.                                                            *)

RECURSIVE updateLendingTimeTrieLoop(_, _, _)
updateLendingTimeTrieLoop(self, keys, failKeys) ==
    IF keys = {} THEN self
    ELSE LET lendingId == CHOOSE k \in keys : TRUE
             lendingItem == self.lendingItemStates[lendingId]
             rest == keys \ {lendingId}
         IN IF lendingId \in self.lendingItemStatesDirty
            THEN LET s1 == [self EXCEPT !.lendingItemStatesDirty = @ \ {lendingId}]
                 IN IF itemEmpty(lendingItem)
                    THEN LET r == TryDelete(s1.lendingTrie, lendingId, lendingId \in failKeys)
                         IN updateLendingTimeTrieLoop(setError([s1 EXCEPT !.lendingTrie = r.tr], r.err),
                                       rest, failKeys)
                  ELSE LET r == TryUpdate(s1.lendingTrie, lendingId, EncodeLendingItem(lendingItem.data),
                                          lendingId \in failKeys)
                       IN updateLendingTimeTrieLoop(setError([s1 EXCEPT !.lendingTrie = r.tr], r.err),
                                     rest, failKeys)
            ELSE updateLendingTimeTrieLoop(self, rest, failKeys)

(* Mutant: the dirty markers are cleared and nothing is written.           *)
updateLendingTimeTrie_NoFlush(self, d, failKeys) ==
    LET s1 == getLendingItemTrie(self, d)
    IN [s1 EXCEPT !.lendingItemStatesDirty = @ \ DOMAIN s1.lendingItemStates]

updateLendingTimeTrie(self, d, failKeys) ==
    LET s1 == getLendingItemTrie(self, d)
    IN updateLendingTimeTrieLoop(s1, DOMAIN s1.lendingItemStates, failKeys)

RECURSIVE updateBorrowingTrieLoop(_, _, _)
updateBorrowingTrieLoop(self, keys, failKeys) ==
    IF keys = {} THEN self
    ELSE LET rate == CHOOSE k \in keys : TRUE
             orderList == self.borrowingStates[rate]
             rest == keys \ {rate}
         IN IF rate \in self.borrowingStatesDirty
            THEN LET s1 == [self EXCEPT !.borrowingStatesDirty = @ \ {rate}]
                 IN IF listEmpty(orderList)
                    THEN LET r == TryDelete(s1.borrowingTrie, rate, rate \in failKeys)
                         IN updateBorrowingTrieLoop(setError([s1 EXCEPT !.borrowingTrie = r.tr], r.err),
                                       rest, failKeys)
                  ELSE LET o2 == listUpdateRoot(orderList)
                           r == TryUpdate(s1.borrowingTrie, rate, EncodeItemList(o2.data),
                                          rate \in failKeys)
                       IN updateBorrowingTrieLoop(setError([s1 EXCEPT !.borrowingStates[rate] = o2,
                                                          !.borrowingTrie = r.tr], r.err),
                                     rest, failKeys)
            ELSE updateBorrowingTrieLoop(self, rest, failKeys)

updateBorrowingTrie(self, d, failKeys) ==
    LET s1 == getBorrowingTrie(self, d)
    IN updateBorrowingTrieLoop(s1, DOMAIN s1.borrowingStates, failKeys)

RECURSIVE updateInvestingTrieLoop(_, _, _)
updateInvestingTrieLoop(self, keys, failKeys) ==
    IF keys = {} THEN self
    ELSE LET rate == CHOOSE k \in keys : TRUE
             orderList == self.investingStates[rate]
             rest == keys \ {rate}
         IN IF rate \in self.investingStatesDirty
            THEN LET s1 == [self EXCEPT !.investingStatesDirty = @ \ {rate}]
                 IN IF listEmpty(orderList)
                    THEN LET r == TryDelete(s1.investingTrie, rate, rate \in failKeys)
                         IN updateInvestingTrieLoop(setError([s1 EXCEPT !.investingTrie = r.tr], r.err),
                                       rest, failKeys)
                  ELSE LET o2 == listUpdateRoot(orderList)
                           r == TryUpdate(s1.investingTrie, rate, EncodeItemList(o2.data),
                                          rate \in failKeys)
                       IN updateInvestingTrieLoop(setError([s1 EXCEPT !.investingStates[rate] = o2,
                                                          !.investingTrie = r.tr], r.err),
                                     rest, failKeys)
            ELSE updateInvestingTrieLoop(self, rest, failKeys)

updateInvestingTrie(self, d, failKeys) ==
    LET s1 == getInvestingTrie(self, d)
    IN updateInvestingTrieLoop(s1, DOMAIN s1.investingStates, failKeys)

RECURSIVE updateLiquidationTimeTrieLoop(_, _, _)
updateLiquidationTimeTrieLoop(self, keys, failKeys) ==
    IF keys = {} THEN self
    ELSE LET time == CHOOSE k \in keys : TRUE
             itemList == self.liquidationTimeStates[time]
             rest == keys \ {time}
         IN IF time \in self.liquidationTimestatesDirty
            THEN LET s1 == [self EXCEPT !.liquidationTimestatesDirty = @ \ {time}]
                 IN IF listEmpty(itemList)
                    THEN LET r == TryDelete(s1.liquidationTimeTrie, time, time \in failKeys)
                         IN updateLiquidationTimeTrieLoop(setError([s1 EXCEPT !.liquidationTimeTrie = r.tr], r.err),
                                       rest, failKeys)
                  ELSE LET o2 == listUpdateRoot(itemList)
                           r == TryUpdate(s1.liquidationTimeTrie, time, EncodeItemList(o2.data),
                                          time \in failKeys)
                       IN updateLiquidationTimeTrieLoop(setError([s1 EXCEPT !.liquidationTimeStates[time] = o2,
                                                          !.liquidationTimeTrie = r.tr], r.err),
                                     rest, failKeys)
            ELSE updateLiquidationTimeTrieLoop(self, rest, failKeys)

(* Mutant: every cached list is flushed, dirty or not.                     *)
updateLiquidationTimeTrie_AllCached(self, d, failKeys) ==
    LET s1 == getLiquidationTimeTrie(self, d)
    IN updateLiquidationTimeTrieLoop(
          [s1 EXCEPT !.liquidationTimestatesDirty = @ \cup DOMAIN s1.liquidationTimeStates],
          DOMAIN s1.liquidationTimeStates, failKeys)

updateLiquidationTimeTrie(self, d, failKeys) ==
    LET s1 == getLiquidationTimeTrie(self, d)
    IN updateLiquidationTimeTrieLoop(s1, DOMAIN s1.liquidationTimeStates, failKeys)

(*                             Update Root                                 *)

updateOrderRoot(self, d, failKeys) ==
    LET s1 == updateLendingTimeTrie(self, d, failKeys)
    IN [s1 EXCEPT !.data.LendingItemRoot = TrieHash(s1.lendingTrie)]

updateInvestingRoot(self, d, failKeys) ==
    LET s1 == updateInvestingTrie(self, d, failKeys)
    IN IF s1.dbErr # NoErr
       THEN [self |-> s1, err |-> s1.dbErr]
       ELSE [self |-> [s1 EXCEPT !.data.InvestingRoot = TrieHash(s1.investingTrie)],
             err |-> NoErr]

updateBorrowingRoot(self, d, failKeys) ==
    LET s1 == updateBorrowingTrie(self, d, failKeys)
    IN [s1 EXCEPT !.data.BorrowingRoot = TrieHash(s1.borrowingTrie)]

updateLiquidationTimeRoot(self, d, failKeys) ==
    LET s1 == updateLiquidationTimeTrie(self, d, failKeys)
    IN [s1 EXCEPT !.data.LiquidationTimeRoot = TrieHash(s1.liquidationTimeTrie)]

(*                             Commit Trie                                 *)
(* trie.Commit(onleaf): writes the trie's nodes to the database, calling   *)
(* onleaf(leaf, parent) for every leaf written; the parent of a leaf is    *)
(* identified with the root it hangs under.  LeavesVisited is the set of   *)
(* (leaf, parent) pairs of the calls; refs is the set of references the    *)
(* callback has registered on them.                                        *)
LeavesVisited(tr) == {<<tr.leaves[k], TrieHash(tr)>> : k \in DOMAIN tr.leaves}

TrieCommit(tr, d, refs, fail) ==
    IF fail
    THEN [root |-> NoRoot, db |-> d, err |-> ErrCommit]
    ELSE [root |-> TrieHash(tr),
          db |-> [nodes |-> d.nodes \cup {TrieHash(tr)}, refs |-> d.refs \cup refs],
          err |-> NoErr]

(* The callback the three list commits pass: db.TrieDB().Reference.        *)
ReferenceLeaf(leaf, parent) ==
    IF ~CanDecode(leaf) THEN {}
    ELSE IF DecodeItemList(leaf).Root # EmptyRoot
         THEN {<<DecodeItemList(leaf).Root, parent>>}
         ELSE {}

(* The references registered by a commit that passes ReferenceLeaf.        *)
References(tr) == UNION {ReferenceLeaf(v[1], v[2]) : v \in LeavesVisited(tr)}

CommitLendingItemTrie(self, d, failKeys, fail) ==
    LET s1 == updateLendingTimeTrie(self, d, failKeys)
        r == TrieCommit(s1.lendingTrie, d, {}, fail)
    IN IF s1.dbErr # NoErr
       THEN [self |-> s1, db |-> d, err |-> s1.dbErr]
       ELSE IF r.err = NoErr
            THEN [self |-> [s1 EXCEPT !.data.LendingItemRoot = r.root],
                  db |-> r.db, err |-> r.err]
            ELSE [self |-> s1, db |-> r.db, err |-> r.err]

(* Mutant: the memoized error is not consulted.                            *)
CommitInvestingTrie_NoErrCheck(self, d, failKeys, fail) ==
    LET s1 == updateInvestingTrie(self, d, failKeys)
        r == TrieCommit(s1.investingTrie, d, References(s1.investingTrie), fail)
    IN IF r.err = NoErr
       THEN [self |-> [s1 EXCEPT !.data.InvestingRoot = r.root],
             db |-> r.db, err |-> r.err]
       ELSE [self |-> s1, db |-> r.db, err |-> r.err]

(* Mutant: the committed root is not stored in the record.                 *)
CommitInvestingTrie_KeepsRoot(self, d, failKeys, fail) ==
    LET s1 == updateInvestingTrie(self, d, failKeys)
        r == TrieCommit(s1.investingTrie, d, References(s1.investingTrie), fail)
    IN IF s1.dbErr # NoErr
       THEN [self |-> s1, db |-> d, err |-> s1.dbErr]
       ELSE [self |-> s1, db |-> r.db, err |-> r.err]

CommitInvestingTrie(self, d, failKeys, fail) ==
    LET s1 == updateInvestingTrie(self, d, failKeys)
        r == TrieCommit(s1.investingTrie, d, References(s1.investingTrie), fail)
    IN IF s1.dbErr # NoErr
       THEN [self |-> s1, db |-> d, err |-> s1.dbErr]
       ELSE IF r.err = NoErr
            THEN [self |-> [s1 EXCEPT !.data.InvestingRoot = r.root],
                  db |-> r.db, err |-> r.err]
            ELSE [self |-> s1, db |-> r.db, err |-> r.err]

(* Mutant: the commit is given no leaf callback.                           *)
CommitBorrowingTrie_NoCallback(self, d, failKeys, fail) ==
    LET s1 == updateBorrowingTrie(self, d, failKeys)
        r == TrieCommit(s1.borrowingTrie, d, {}, fail)
    IN IF s1.dbErr # NoErr
       THEN [self |-> s1, db |-> d, err |-> s1.dbErr]
       ELSE IF r.err = NoErr
            THEN [self |-> [s1 EXCEPT !.data.BorrowingRoot = r.root],
                  db |-> r.db, err |-> r.err]
            ELSE [self |-> s1, db |-> r.db, err |-> r.err]

CommitBorrowingTrie(self, d, failKeys, fail) ==
    LET s1 == updateBorrowingTrie(self, d, failKeys)
        r == TrieCommit(s1.borrowingTrie, d, References(s1.borrowingTrie), fail)
    IN IF s1.dbErr # NoErr
       THEN [self |-> s1, db |-> d, err |-> s1.dbErr]
       ELSE IF r.err = NoErr
            THEN [self |-> [s1 EXCEPT !.data.BorrowingRoot = r.root],
                  db |-> r.db, err |-> r.err]
            ELSE [self |-> s1, db |-> r.db, err |-> r.err]

CommitLiquidationTimeTrie(self, d, failKeys, fail) ==
    LET s1 == updateLiquidationTimeTrie(self, d, failKeys)
        r == TrieCommit(s1.liquidationTimeTrie, d, References(s1.liquidationTimeTrie), fail)
    IN IF s1.dbErr # NoErr
       THEN [self |-> s1, db |-> d, err |-> s1.dbErr]
       ELSE IF r.err = NoErr
            THEN [self |-> [s1 EXCEPT !.data.LiquidationTimeRoot = r.root],
                  db |-> r.db, err |-> r.err]
            ELSE [self |-> s1, db |-> r.db, err |-> r.err]

(*                            Get Trie Data                                *)

(* Mutant: the right-most key instead of the left-most.                    *)
getBestInvestingRate_Right(self, d, fail) ==
    LET s1 == getInvestingTrie(self, d)
        r == TryGetBestRightKeyAndValue(s1.investingTrie, fail)
    IN IF r.err # NoErr THEN [self |-> s1, ret |-> EmptyHash]
       ELSE IF Len(r.encKey) = 0 \/ Len(r.encValue) = 0
            THEN [self |-> s1, ret |-> EmptyHash]
       ELSE IF ~CanDecode(r.encValue) THEN [self |-> s1, ret |-> EmptyHash]
       ELSE [self |-> s1, ret |-> BytesToHash(r.encKey)]

getBestInvestingRate(self, d, fail) ==
    LET s1 == getInvestingTrie(self, d)
        r == TryGetBestLeftKeyAndValue(s1.investingTrie, fail)
    IN IF r.err # NoErr THEN [self |-> s1, ret |-> EmptyHash]
       ELSE IF Len(r.encKey) = 0 \/ Len(r.encValue) = 0
            THEN [self |-> s1, ret |-> EmptyHash]
       ELSE IF ~CanDecode(r.encValue) THEN [self |-> s1, ret |-> EmptyHash]
       ELSE [self |-> s1, ret |-> BytesToHash(r.encKey)]

getBestBorrowingRate(self, d, fail) ==
    LET s1 == getBorrowingTrie(self, d)
        r == TryGetBestRightKeyAndValue(s1.borrowingTrie, fail)
    IN IF r.err # NoErr THEN [self |-> s1, ret |-> EmptyHash]
       ELSE IF Len(r.encKey) = 0 \/ Len(r.encValue) = 0
            THEN [self |-> s1, ret |-> EmptyHash]
       ELSE IF ~CanDecode(r.encValue) THEN [self |-> s1, ret |-> EmptyHash]
       ELSE [self |-> s1, ret |-> BytesToHash(r.encKey)]

getLowestLiquidationTime(self, d, fail) ==
    LET s1 == getLiquidationTimeTrie(self, d)
        r == TryGetBestLeftKeyAndValue(s1.liquidationTimeTrie, fail)
        price == BytesToHash(r.encKey)
        obj == newLiquidationTimeState(self.lendingBook, price, DecodeItemList(r.encValue),
                                       MethodValue(self.ptr, "MarkLiquidationTimeDirty"))
    IN IF r.err # NoErr THEN [self |-> s1, ret |-> EmptyHash, obj |-> NilObj]
       ELSE IF Len(r.encKey) = 0 \/ Len(r.encValue) = 0
            THEN [self |-> s1, ret |-> EmptyHash, obj |-> NilObj]
       ELSE IF ~CanDecode(r.encValue) THEN [self |-> s1, ret |-> EmptyHash, obj |-> NilObj]
       ELSE [self |-> [s1 EXCEPT !.liquidationTimeStates = With(@, price, obj)],
             ret |-> price, obj |-> obj]

(* The new object is at address ptr.                                       *)
deepCopy(self, ptr, onDirty) ==
    LET stateExchanges == newStateExchanges(ptr, self.lendingBook, self.data, onDirty)
    IN [stateExchanges EXCEPT
          !.investingTrie = IF self.investingTrie.open
                            THEN CopyTrie(self.investingTrie) ELSE @,
          !.borrowingTrie = IF self.borrowingTrie.open
                            THEN CopyTrie(self.borrowingTrie) ELSE @,
          !.lendingTrie = IF self.lendingTrie.open
                          THEN CopyTrie(self.lendingTrie) ELSE @,
          !.borrowingStates =
              [key \in DOMAIN self.borrowingStates |->
                  subDeepCopy(self.borrowingStates[key],
                              MethodValue(self.ptr, "MarkBorrowingDirty"))],
          !.borrowingStatesDirty = self.borrowingStatesDirty,
          !.investingStates =
              [key \in DOMAIN self.investingStates |->
                  subDeepCopy(self.investingStates[key],
                              MethodValue(self.ptr, "MarkInvestingDirty"))],
          !.investingStatesDirty = self.investingStatesDirty,
          !.lendingItemStates =
              [key \in DOMAIN self.lendingItemStates |->
                  subDeepCopy(self.lendingItemStates[key],
                              MethodValue(self.ptr, "MarkLendingItemDirty"))],
          !.lendingItemStatesDirty = self.lendingItemStatesDirty,
          !.liquidationTimeStates =
              [time \in DOMAIN self.liquidationTimeStates |->
                  subDeepCopy(self.liquidationTimeStates[time],
                              MethodValue(self.ptr, "MarkLiquidationTimeDirty"))],
          !.liquidationTimestatesDirty = self.liquidationTimestatesDirty]

(* if self.onDirty != nil { self.onDirty(hash); self.onDirty = nil }       *)
fireOnDirty(self, hash) ==
    IF self.onDirty
    THEN [self EXCEPT !.notified = Append(@, hash), !.onDirty = FALSE]
    ELSE self

setNonce(self, nonce) ==
    fireOnDirty([self EXCEPT !.data.Nonce = nonce], self.lendingBook)

removeInvestingOrderList_WrongTrie(self, d, stateOrderList, fail) ==
    IF ~self.investingTrie.open THEN [self EXCEPT !.panicked = TRUE]
    ELSE LET r == TryDelete(self.borrowingTrie, stateOrderList.key, fail)
         IN setError([self EXCEPT !.borrowingTrie = r.tr], r.err)

(* A method called on a nil trie handle panics.                            *)
removeInvestingOrderList(self, d, stateOrderList, fail) ==
    IF ~self.investingTrie.open THEN [self EXCEPT !.panicked = TRUE]
    ELSE LET r == TryDelete(self.investingTrie, stateOrderList.key, fail)
         IN setError([self EXCEPT !.investingTrie = r.tr], r.err)

removeBorrowingOrderList(self, d, stateOrderList, fail) ==
    IF ~self.borrowingTrie.open THEN [self EXCEPT !.panicked = TRUE]
    ELSE LET r == TryDelete(self.borrowingTrie, stateOrderList.key, fail)
         IN setError([self EXCEPT !.borrowingTrie = r.tr], r.err)

createInvestingOrderList(self, d, price, fail) ==
    LET newobj == newItemListState(self.lendingBook, price, ZeroItemList,
                                   MethodValue(self.ptr, "MarkInvestingDirty"))
        s1 == [self EXCEPT !.investingStates = With(@, price, newobj),
                           !.investingStatesDirty = @ \cup {price}]
        data == EncodeItemList(newobj.data)
        r == TryUpdate(s1.investingTrie, price, data, fail)
    IN IF ~s1.investingTrie.open
       THEN [self |-> [s1 EXCEPT !.panicked = TRUE], obj |-> NilObj]
       ELSE [self |-> fireOnDirty(setError([s1 EXCEPT !.investingTrie = r.tr], r.err),
                                  self.lendingBook),
             obj |-> newobj]

MarkBorrowingDirty(self, price) ==
    fireOnDirty([self EXCEPT !.borrowingStatesDirty = @ \cup {price}], self.lendingBook)

MarkInvestingDirty(self, price) ==
    fireOnDirty([self EXCEPT !.investingStatesDirty = @ \cup {price}], self.lendingBook)

MarkLendingItemDirty(self, orderId) ==
    fireOnDirty([self EXCEPT !.lendingItemStatesDirty = @ \cup {orderId}], self.lendingBook)

MarkLiquidationTimeDirty(self, orderId) ==
    fireOnDirty([self EXCEPT !.liquidationTimestatesDirty = @ \cup {orderId}],
                self.lendingBook)

createBorrowingOrderList(self, d, price, fail) ==
    LET newobj == newItemListState(self.lendingBook, price, ZeroItemList,
                                   MethodValue(self.ptr, "MarkBorrowingDirty"))
        s1 == [self EXCEPT !.borrowingStates = With(@, price, newobj),
                           !.borrowingStatesDirty = @ \cup {price}]
        data == EncodeItemList(newobj.data)
        r == TryUpdate(s1.borrowingTrie, price, data, fail)
    IN IF ~s1.borrowingTrie.open
       THEN [self |-> [s1 EXCEPT !.panicked = TRUE], obj |-> NilObj]
       ELSE [self |-> fireOnDirty(setError([s1 EXCEPT !.borrowingTrie = r.tr], r.err),
                                  self.lendingBook),
             obj |-> newobj]

createLendingItem(self, d, orderId, order) ==
    LET newobj == newLendinItemState(self.lendingBook, orderId, order,
                                     MethodValue(self.ptr, "MarkLendingItemDirty"))
        orderIdHash == BigToHash(order.OrderID)
    IN [self |-> fireOnDirty([self EXCEPT
                                 !.lendingItemStates = With(@, orderIdHash, newobj),
                                 !.lendingItemStatesDirty = @ \cup {orderIdHash}],
                             self.lendingBook),
        obj |-> newobj]

createLiquidationTime(self, d, time) ==
    LET newobj == newLiquidationTimeState(time, self.lendingBook, ZeroItemList,
                                          MethodValue(self.ptr, "MarkLendingItemDirty"))
    IN [self |-> [self EXCEPT !.liquidationTimeStates = With(@, time, newobj),
                              !.lendingItemStatesDirty = @ \cup {time}],
        obj |-> newobj]

(***************************************************************************)
(* A sub-state object changes: itemListState and liquidationTimeState      *)
(* change their volume, lendingItemState its quantity.  The object calls   *)
(* the callback it holds with its own key, once (the same one-shot         *)
(* contract as the owner notification), and clears it.                     *)
(***************************************************************************)
Invoke(self, mark, key) ==
    CASE mark = "MarkBorrowingDirty" -> MarkBorrowingDirty(self, key)
      [] mark = "MarkInvestingDirty" -> MarkInvestingDirty(self, key)
      [] mark = "MarkLendingItemDirty" -> MarkLendingItemDirty(self, key)
      [] mark = "MarkLiquidationTimeDirty" -> MarkLiquidationTimeDirty(self, key)

(* The heap after the object obj, cached in heap[ptr][cache][key], has     *)
(* become obj2 and has invoked its callback.                               *)
subMutate(heap, ptr, cache, key, obj2) ==
    LET obj == heap[ptr][cache][key]
        h1 == [heap EXCEPT ![ptr][cache][key] = [obj2 EXCEPT !.onDirty = NilCallback]]
    IN IF obj.onDirty = NilCallback THEN h1
       ELSE [h1 EXCEPT ![obj.onDirty.self] = Invoke(@, obj.onDirty.mark, obj.key)]

(***************************************************************************)
(* The persisted state the order book is loaded from.                      *)
(***************************************************************************)
StoredList == [Root |-> NestedRoot(1), Volume |-> 1]

StoredLists == [k \in Keys |-> EncodeItemList(StoredList)]

StoredItems == [k \in Keys |-> EncodeLendingItem([OrderID |-> k, Quantity |-> 1])]

DamagedLists == [k \in Keys |-> IF k = 1 THEN BadBytes ELSE EncodeItemList(StoredList)]

DamagedItems ==
    [k \in Keys |-> IF k = 1 THEN BadBytes
                    ELSE EncodeLendingItem([OrderID |-> k, Quantity |-> 1])]

(* A list trie with a leaf whose nested trie is empty.                     *)
HollowLists ==
    [k \in Keys |-> IF k = 1 THEN EncodeItemList([Root |-> EmptyRoot, Volume |-> 0])
                    ELSE EncodeItemList(StoredList)]

(* A list trie with a leaf at one price only.                              *)
SparseLists == [k \in {MaxKey} |-> EncodeItemList(StoredList)]

PrunedLists == [k \in {1} |-> EncodeItemList(StoredList)]

PrunedItems == [k \in {1} |-> EncodeLendingItem([OrderID |-> k, Quantity |-> 1])]

StoredNodes ==
    {HashOf(StoredLists), HashOf(StoredItems), HashOf(DamagedLists), HashOf(DamagedItems),
     HashOf(HollowLists)}

Book(lists, items) ==
    [Nonce |-> 0, InvestingRoot |-> lists, BorrowingRoot |-> lists,
     LendingItemRoot |-> items, LiquidationTimeRoot |-> lists]

(* A new order book, a stored one, one with an undecodable leaf, one with  *)
(* a leaf for an empty list, and one whose tries are missing from the      *)
(* database.                                                               *)
InitBooks ==
    {Book(NoRoot, NoRoot),
     Book(HashOf(StoredLists), HashOf(StoredItems)),
     Book(HashOf(DamagedLists), HashOf(DamagedItems)),
     Book(HashOf(HollowLists), HashOf(StoredItems)),
     Book(HashOf(PrunedLists), HashOf(PrunedItems))}

Orders == [OrderID : Keys, Quantity : 1..MaxAmount]

Ptrs == {"s", "c", "r"}

(* The call just made: the method, its receiver, its key argument, the     *)
(* hash, object and error it returned, whether a database access it made   *)
(* failed, and the receiver's trie handles as they were before the call.   *)
Last(op, ptr, key, ret, obj, err, io) ==
    [op |-> op, ptr |-> ptr, key |-> key, ret |-> ret, obj |-> obj, err |-> err,
     io |-> io,
     tries |-> [investingTrie |-> st[ptr].investingTrie,
                borrowingTrie |-> st[ptr].borrowingTrie,
                lendingTrie |-> st[ptr].lendingTrie,
                liquidationTimeTrie |-> st[ptr].liquidationTimeTrie]]

(* The owner constructs the object with its dirty-marking method as the    *)
(* callback; an object without a callback is one whose callback has fired, *)
(* or a copy made without one.                                             *)
Init ==
    /\ \E book \in InitBooks :
          st = [p \in {"s"} |-> newStateExchanges("s", LendingBook, book, TRUE)]
    /\ db = [nodes |-> StoredNodes, refs |-> {}]
    /\ last = Last("new", "s", EmptyHash, EmptyHash, NilObj, NoErr, FALSE)
    /\ left = MaxOps

Running == left > 0 /\ \A p \in DOMAIN st : ~st[p].panicked

(* One call on the object at ptr: the receiver becomes self2.              *)
Call(ptr, self2, d2, l) ==
    /\ st' = [st EXCEPT ![ptr] = self2]
    /\ db' = d2
    /\ last' = l
    /\ left' = left - 1

DirtyCached(cache, dirty) == SUBSET ((DOMAIN cache) \cap dirty)

(*                               Actions                                   *)

GetBorrowingOrderList(ptr, rate, fail) ==
    /\ Running
    /\ fail => rate \notin DOMAIN st[ptr].borrowingStates
    /\ LET r == getBorrowingOrderList(st[ptr], db, rate, fail)
       IN Call(ptr, r.self, db,
               Last("getBorrowingOrderList", ptr, rate, EmptyHash, r.obj, NoErr, fail))

GetInvestingOrderList(ptr, rate, fail) ==
    /\ Running
    /\ fail => rate \notin DOMAIN st[ptr].investingStates
    /\ LET r == getInvestingOrderList(st[ptr], db, rate, fail)
       IN Call(ptr, r.self, db,
               Last("getInvestingOrderList", ptr, rate, EmptyHash, r.obj, NoErr, fail))

GetLiquidationTimeOrderList(ptr, time, fail) ==
    /\ Running
    /\ fail => time \notin DOMAIN st[ptr].liquidationTimeStates
    /\ LET r == getLiquidationTimeOrderList(st[ptr], db, time, fail)
       IN Call(ptr, r.self, db,
               Last("getLiquidationTimeOrderList", ptr, time, EmptyHash, r.obj, NoErr, fail))

GetLendingItem(ptr, lendingId, fail) ==
    /\ Running
    /\ fail => lendingId \notin DOMAIN st[ptr].lendingItemStates
    /\ LET r == getLendingItem(st[ptr], db, lendingId, fail)
       IN Call(ptr, r.self, db,
               Last("getLendingItem", ptr, lendingId, EmptyHash, r.obj, NoErr, fail))

UpdateOrderRoot(ptr, failKeys) ==
    /\ Running
    /\ failKeys \in DirtyCached(st[ptr].lendingItemStates, st[ptr].lendingItemStatesDirty)
    /\ Call(ptr, updateOrderRoot(st[ptr], db, failKeys), db,
            Last("updateOrderRoot", ptr, EmptyHash, EmptyHash, NilObj, NoErr, failKeys # {}))

UpdateInvestingRoot(ptr, failKeys) ==
    /\ Running
    /\ failKeys \in DirtyCached(st[ptr].investingStates, st[ptr].investingStatesDirty)
    /\ LET r == updateInvestingRoot(st[ptr], db, failKeys)
       IN Call(ptr, r.self, db,
               Last("updateInvestingRoot", ptr, EmptyHash, EmptyHash, NilObj, r.err, failKeys # {}))

UpdateBorrowingRoot(ptr, failKeys) ==
    /\ Running
    /\ failKeys \in DirtyCached(st[ptr].borrowingStates, st[ptr].borrowingStatesDirty)
    /\ Call(ptr, updateBorrowingRoot(st[ptr], db, failKeys), db,
            Last("updateBorrowingRoot", ptr, EmptyHash, EmptyHash, NilObj, NoErr, failKeys # {}))

UpdateLiquidationTimeRoot(ptr, failKeys) ==
    /\ Running
    /\ failKeys \in DirtyCached(st[ptr].liquidationTimeStates,
                                st[ptr].liquidationTimestatesDirty)
    /\ Call(ptr, updateLiquidationTimeRoot(st[ptr], db, failKeys), db,
            Last("updateLiquidationTimeRoot", ptr, EmptyHash, EmptyHash, NilObj, NoErr, failKeys # {}))

DoCommitLendingItemTrie(ptr, failKeys, fail) ==
    /\ Running
    /\ failKeys \in DirtyCached(st[ptr].lendingItemStates, st[ptr].lendingItemStatesDirty)
    /\ LET r == CommitLendingItemTrie(st[ptr], db, failKeys, fail)
       IN Call(ptr, r.self, r.db,
               Last("CommitLendingItemTrie", ptr, EmptyHash, EmptyHash, NilObj, r.err, failKeys # {}))

DoCommitInvestingTrie(ptr, failKeys, fail) ==
    /\ Running
    /\ failKeys \in DirtyCached(st[ptr].investingStates, st[ptr].investingStatesDirty)
    /\ LET r == CommitInvestingTrie(st[ptr], db, failKeys, fail)
       IN Call(ptr, r.self, r.db,
               Last("CommitInvestingTrie", ptr, EmptyHash, EmptyHash, NilObj, r.err, failKeys # {}))

DoCommitBorrowingTrie(ptr, failKeys, fail) ==
    /\ Running
    /\ failKeys \in DirtyCached(st[ptr].borrowingStates, st[ptr].borrowingStatesDirty)
    /\ LET r == CommitBorrowingTrie(st[ptr], db, failKeys, fail)
       IN Call(ptr, r.self, r.db,
               Last("CommitBorrowingTrie", ptr, EmptyHash, EmptyHash, NilObj, r.err, failKeys # {}))

DoCommitLiquidationTimeTrie(ptr, failKeys, fail) ==
    /\ Running
    /\ failKeys \in DirtyCached(st[ptr].liquidationTimeStates,
                                st[ptr].liquidationTimestatesDirty)
    /\ LET r == CommitLiquidationTimeTrie(st[ptr], db, failKeys, fail)
       IN Call(ptr, r.self, r.db,
               Last("CommitLiquidationTimeTrie", ptr, EmptyHash, EmptyHash, NilObj, r.err, failKeys # {}))

GetBestInvestingRate(ptr, fail) ==
    /\ Running
    /\ LET r == getBestInvestingRate(st[ptr], db, fail)
       IN Call(ptr, r.self, db,
               Last("getBestInvestingRate", ptr, EmptyHash, r.ret, NilObj, NoErr, fail))

GetBestBorrowingRate(ptr, fail) ==
    /\ Running
    /\ LET r == getBestBorrowingRate(st[ptr], db, fail)
       IN Call(ptr, r.self, db,
               Last("getBestBorrowingRate", ptr, EmptyHash, r.ret, NilObj, NoErr, fail))

GetLowestLiquidationTime(ptr, fail) ==
    /\ Running
    /\ LET r == getLowestLiquidationTime(st[ptr], db, fail)
       IN Call(ptr, r.self, db,
               Last("getLowestLiquidationTime", ptr, EmptyHash, r.ret, r.obj, NoErr, fail))

DeepCopy(onDirty) ==
    /\ Running
    /\ "c" \notin DOMAIN st
    /\ st' = ("c" :> deepCopy(st["s"], "c", onDirty)) @@ st
    /\ last' = Last("deepCopy", "s", EmptyHash, EmptyHash, NilObj, NoErr, FALSE)
    /\ left' = left - 1
    /\ UNCHANGED db

SetNonce(ptr, nonce) ==
    /\ Running
    /\ Call(ptr, setNonce(st[ptr], nonce), db,
            Last("setNonce", ptr, EmptyHash, EmptyHash, NilObj, NoErr, FALSE))

RemoveInvestingOrderList(ptr, price, fail) ==
    /\ Running
    /\ price \in DOMAIN st[ptr].investingStates
    /\ Call(ptr, removeInvestingOrderList(st[ptr], db, st[ptr].investingStates[price], fail),
            db, Last("removeInvestingOrderList", ptr, price, EmptyHash, NilObj, NoErr, fail))

RemoveBorrowingOrderList(ptr, price, fail) ==
    /\ Running
    /\ price \in DOMAIN st[ptr].borrowingStates
    /\ Call(ptr, removeBorrowingOrderList(st[ptr], db, st[ptr].borrowingStates[price], fail),
            db, Last("removeBorrowingOrderList", ptr, price, EmptyHash, NilObj, NoErr, fail))

CreateInvestingOrderList(ptr, price, fail) ==
    /\ Running
    /\ LET r == createInvestingOrderList(st[ptr], db, price, fail)
       IN Call(ptr, r.self, db,
               Last("createInvestingOrderList", ptr, price, EmptyHash, r.obj, NoErr, fail))

CreateBorrowingOrderList(ptr, price, fail) ==
    /\ Running
    /\ LET r == createBorrowingOrderList(st[ptr], db, price, fail)
       IN Call(ptr, r.self, db,
               Last("createBorrowingOrderList", ptr, price, EmptyHash, r.obj, NoErr, fail))

CreateLendingItem(ptr, orderId, order) ==
    /\ Running
    /\ LET r == createLendingItem(st[ptr], db, orderId, order)
       IN Call(ptr, r.self, db,
               Last("createLendingItem", ptr, orderId, EmptyHash, r.obj, NoErr, FALSE))

CreateLiquidationTime(ptr, time) ==
    /\ Running
    /\ LET r == createLiquidationTime(st[ptr], db, time)
       IN Call(ptr, r.self, db,
               Last("createLiquidationTime", ptr, time, EmptyHash, r.obj, NoErr, FALSE))

ListCaches == {"investingStates", "borrowingStates", "liquidationTimeStates"}

SetVolume(ptr, cache, key, volume) ==
    /\ Running
    /\ key \in DOMAIN st[ptr][cache]
    /\ st[ptr][cache][key].data.Volume # volume
    /\ st' = subMutate(st, ptr, cache, key,
                       [st[ptr][cache][key] EXCEPT !.data.Volume = volume])
    /\ last' = Last("setVolume", ptr, key, EmptyHash, st[ptr][cache][key], NoErr, FALSE)
    /\ left' = left - 1
    /\ UNCHANGED db

SetQuantity(ptr, key, quantity) ==
    /\ Running
    /\ key \in DOMAIN st[ptr].lendingItemStates
    /\ st[ptr].lendingItemStates[key].data.Quantity # quantity
    /\ st' = subMutate(st, ptr, "lendingItemStates", key,
                       [st[ptr].lendingItemStates[key] EXCEPT !.data.Quantity = quantity])
    /\ last' = Last("setQuantity", ptr, key, EmptyHash, st[ptr].lendingItemStates[key], NoErr, FALSE)
    /\ left' = left - 1
    /\ UNCHANGED db

Next ==
    \/ \E ptr \in DOMAIN st, key \in Keys, fail \in BOOLEAN :
          GetBorrowingOrderList(ptr, key, fail)
    \/ \E ptr \in DOMAIN st, key \in Keys, fail \in BOOLEAN :
          GetInvestingOrderList(ptr, key, fail)
    \/ \E ptr \in DOMAIN st, key \in Keys, fail \in BOOLEAN :
          GetLiquidationTimeOrderList(ptr, key, fail)
    \/ \E ptr \in DOMAIN st, key \in Keys, fail \in BOOLEAN :
          GetLendingItem(ptr, key, fail)
    \/ \E ptr \in DOMAIN st, failKeys \in SUBSET Keys : UpdateOrderRoot(ptr, failKeys)
    \/ \E ptr \in DOMAIN st, failKeys \in SUBSET Keys : UpdateInvestingRoot(ptr, failKeys)
    \/ \E ptr \in DOMAIN st, failKeys \in SUBSET Keys : UpdateBorrowingRoot(ptr, failKeys)
    \/ \E ptr \in DOMAIN st, failKeys \in SUBSET Keys :
          UpdateLiquidationTimeRoot(ptr, failKeys)
    \/ \E ptr \in DOMAIN st, failKeys \in SUBSET Keys, fail \in BOOLEAN :
          DoCommitLendingItemTrie(ptr, failKeys, fail)
    \/ \E ptr \in DOMAIN st, failKeys \in SUBSET Keys, fail \in BOOLEAN :
          DoCommitInvestingTrie(ptr, failKeys, fail)
    \/ \E ptr \in DOMAIN st, failKeys \in SUBSET Keys, fail \in BOOLEAN :
          DoCommitBorrowingTrie(ptr, failKeys, fail)
    \/ \E ptr \in DOMAIN st, failKeys \in SUBSET Keys, fail \in BOOLEAN :
          DoCommitLiquidationTimeTrie(ptr, failKeys, fail)
    \/ \E ptr \in DOMAIN st, fail \in BOOLEAN : GetBestInvestingRate(ptr, fail)
    \/ \E ptr \in DOMAIN st, fail \in BOOLEAN : GetBestBorrowingRate(ptr, fail)
    \/ \E ptr \in DOMAIN st, fail \in BOOLEAN : GetLowestLiquidationTime(ptr, fail)
    \/ \E onDirty \in BOOLEAN : DeepCopy(onDirty)
    \/ \E ptr \in DOMAIN st, nonce \in 0..MaxNonce : SetNonce(ptr, nonce)
    \/ \E ptr \in DOMAIN st, key \in Keys, fail \in BOOLEAN :
          RemoveInvestingOrderList(ptr, key, fail)
    \/ \E ptr \in DOMAIN st, key \in Keys, fail \in BOOLEAN :
          RemoveBorrowingOrderList(ptr, key, fail)
    \/ \E ptr \in DOMAIN st, key \in Keys, fail \in BOOLEAN :
          CreateInvestingOrderList(ptr, key, fail)
    \/ \E ptr \in DOMAIN st, key \in Keys, fail \in BOOLEAN :
          CreateBorrowingOrderList(ptr, key, fail)
    \/ \E ptr \in DOMAIN st, key \in Keys, order \in Orders :
          CreateLendingItem(ptr, key, order)
    \/ \E ptr \in DOMAIN st, key \in Keys : CreateLiquidationTime(ptr, key)
    \/ \E ptr \in DOMAIN st, cache \in ListCaches, key \in Keys, volume \in 0..MaxAmount :
          SetVolume(ptr, cache, key, volume)
    \/ \E ptr \in DOMAIN st, key \in Keys, quantity \in 0..MaxAmount :
          SetQuantity(ptr, key, quantity)

Spec == Init /\ [][Next]_vars

(* The same order books, followed for MaxDeepOps calls.                    *)
InitDeep ==
    /\ \E book \in InitBooks :
          st = [p \in {"s"} |-> newStateExchanges("s", LendingBook, book, TRUE)]
    /\ db = [nodes |-> StoredNodes, refs |-> {}]
    /\ last = Last("new", "s", EmptyHash, EmptyHash, NilObj, NoErr, FALSE)
    /\ left = MaxDeepOps

SpecDeep == InitDeep /\ [][Next]_vars

(***************************************************************************)
(* Persist and reload: the investing side of one order book is worked on,  *)
(* committed, and the record of a successful commit is loaded into a new   *)
(* object r, which is then the one in use.                                 *)
(***************************************************************************)
Reload(onDirty) ==
    /\ Running
    /\ "r" \notin DOMAIN st
    /\ st' = ("r" :> newStateExchanges("r", st["s"].lendingBook, st["s"].data, onDirty))
                 @@ st
    /\ last' = Last("newStateExchanges", "s", EmptyHash, EmptyHash, NilObj, NoErr, FALSE)
    /\ left' = left - 1
    /\ UNCHANGED db

InUse == IF "r" \in DOMAIN st THEN {"r"} ELSE {"s"}

(* A failed database access on s memoizes an error, after which no commit  *)
(* of s succeeds and nothing is reloaded: the database accesses of s       *)
(* succeed, those of r may fail.  For the same reason s is loaded from a   *)
(* record whose investing trie the database holds.                         *)
Failures == IF "r" \in DOMAIN st THEN BOOLEAN ELSE {FALSE}

FailedKeys == IF "r" \in DOMAIN st THEN SUBSET Keys ELSE {{}}

ReloadBooks ==
    {book \in InitBooks :
        book.InvestingRoot = NoRoot \/ book.InvestingRoot \in StoredNodes}

InitReload ==
    /\ \E book \in ReloadBooks :
          st = [p \in {"s"} |-> newStateExchanges("s", LendingBook, book, TRUE)]
    /\ db = [nodes |-> StoredNodes, refs |-> {}]
    /\ last = Last("new", "s", EmptyHash, EmptyHash, NilObj, NoErr, FALSE)
    /\ left = MaxReloadOps

NextReload ==
    \/ \E ptr \in InUse, key \in Keys, fail \in Failures :
          GetInvestingOrderList(ptr, key, fail)
    \/ \E ptr \in InUse, key \in Keys, fail \in Failures :
          CreateInvestingOrderList(ptr, key, fail)
    \/ \E ptr \in InUse, key \in Keys, volume \in 0..MaxAmount :
          SetVolume(ptr, "investingStates", key, volume)
    \/ \E ptr \in InUse, failKeys \in FailedKeys, fail \in BOOLEAN :
          DoCommitInvestingTrie(ptr, failKeys, fail)
    \/ \E ptr \in InUse, fail \in Failures : GetBestInvestingRate(ptr, fail)
    \/ (last.op = "CommitInvestingTrie" /\ last.err = NoErr /\ Reload(TRUE))

SpecReload == InitReload /\ [][NextReload]_vars

(***************************************************************************)
(* Creating and removing order lists: the investing and borrowing lists of *)
(* one object, on a new order book, on one with a single stored price, and *)
(* on one whose tries are missing from the database.                       *)
(***************************************************************************)
RoundTripBooks ==
    {Book(NoRoot, NoRoot),
     Book(HashOf(SparseLists), HashOf(StoredItems)),
     Book(HashOf(PrunedLists), HashOf(PrunedItems))}

InitRoundTrip ==
    /\ \E book \in RoundTripBooks :
          st = [p \in {"s"} |-> newStateExchanges("s", LendingBook, book, TRUE)]
    /\ db = [nodes |-> StoredNodes \cup {HashOf(SparseLists)}, refs |-> {}]
    /\ last = Last("new", "s", EmptyHash, EmptyHash, NilObj, NoErr, FALSE)
    /\ left = MaxRoundTripOps

NextRoundTrip ==
    \/ \E key \in Keys, fail \in BOOLEAN : GetInvestingOrderList("s", key, fail)
    \/ \E key \in Keys, fail \in BOOLEAN : GetBorrowingOrderList("s", key, fail)
    \/ \E key \in Keys, fail \in BOOLEAN : CreateInvestingOrderList("s", key, fail)
    \/ \E key \in Keys, fail \in BOOLEAN : CreateBorrowingOrderList("s", key, fail)
    \/ \E key \in Keys, fail \in BOOLEAN : RemoveInvestingOrderList("s", key, fail)
    \/ \E key \in Keys, fail \in BOOLEAN : RemoveBorrowingOrderList("s", key, fail)
    \/ \E failKeys \in SUBSET Keys : UpdateInvestingRoot("s", failKeys)
    \/ \E failKeys \in SUBSET Keys : UpdateBorrowingRoot("s", failKeys)
    \/ \E cache \in {"investingStates", "borrowingStates"}, key \in Keys,
          volume \in 0..MaxAmount : SetVolume("s", cache, key, volume)

SpecRoundTrip == InitRoundTrip /\ [][NextRoundTrip]_vars

(***************************************************************************)
(* Properties.                                                             *)
(***************************************************************************)
CacheNames ==
    {"investingStates", "borrowingStates", "lendingItemStates", "liquidationTimeStates"}

DirtyNames ==
    {"investingStatesDirty", "borrowingStatesDirty", "lendingItemStatesDirty",
     "liquidationTimestatesDirty"}

TrieNames == {"investingTrie", "borrowingTrie", "lendingTrie", "liquidationTimeTrie"}

RootNames == {"InvestingRoot", "BorrowingRoot", "LendingItemRoot", "LiquidationTimeRoot"}

CommitOps ==
    {"CommitLendingItemTrie", "CommitInvestingTrie", "CommitBorrowingTrie",
     "CommitLiquidationTimeTrie"}

UpdateRootOps ==
    {"updateOrderRoot", "updateInvestingRoot", "updateBorrowingRoot",
     "updateLiquidationTimeRoot"}

CreateOps ==
    {"createInvestingOrderList", "createBorrowingOrderList", "createLendingItem",
     "createLiquidationTime"}

(* The collection a method belongs to: its trie, root field, live cache    *)
(* and dirty set.                                                          *)
Investing ==
    [trie |-> "investingTrie", root |-> "InvestingRoot", cache |-> "investingStates",
     dirty |-> "investingStatesDirty"]

Borrowing ==
    [trie |-> "borrowingTrie", root |-> "BorrowingRoot", cache |-> "borrowingStates",
     dirty |-> "borrowingStatesDirty"]

LendingItems ==
    [trie |-> "lendingTrie", root |-> "LendingItemRoot", cache |-> "lendingItemStates",
     dirty |-> "lendingItemStatesDirty"]

LiquidationTimes ==
    [trie |-> "liquidationTimeTrie", root |-> "LiquidationTimeRoot",
     cache |-> "liquidationTimeStates", dirty |-> "liquidationTimestatesDirty"]

Collections == {Investing, Borrowing, LendingItems, LiquidationTimes}

CollectionOf(op) ==
    CASE op \in {"CommitInvestingTrie", "updateInvestingRoot", "createInvestingOrderList",
                 "getBestInvestingRate"} -> Investing
      [] op \in {"CommitBorrowingTrie", "updateBorrowingRoot", "createBorrowingOrderList",
                 "getBestBorrowingRate"} -> Borrowing
      [] op \in {"CommitLendingItemTrie", "updateOrderRoot", "createLendingItem"}
            -> LendingItems
      [] op \in {"CommitLiquidationTimeTrie", "updateLiquidationTimeRoot",
                 "createLiquidationTime", "getLowestLiquidationTime"} -> LiquidationTimes

(* What snapshot isolation protects: the root fields, the live caches, the *)
(* dirty sets and the state of the owner's callback.                       *)
Observed(self) ==
    [data |-> self.data,
     caches |-> [c \in CacheNames |-> self[c]],
     dirty |-> [c \in DirtyNames |-> self[c]],
     onDirty |-> self.onDirty,
     notified |-> self.notified]

(* The leaves a trie handle holds, and those it would hold once opened.    *)
LeavesOf(self, d, coll) ==
    IF self[coll.trie].open THEN self[coll.trie].leaves
    ELSE OpenStorageTrie(d, self.data[coll.root]).tr.leaves

(* C1 (as claimed): once the copy exists, a call on one of the two objects, *)
(* or a change of a sub-state object held in its live cache, leaves the    *)
(* root fields, live caches, dirty sets and owner callback of the other    *)
(* object as they were.                                                    *)
C1_SnapshotIsolation ==
    [][\A p \in DOMAIN st :
          (left' = left - 1 /\ "c" \in DOMAIN st /\ last'.ptr # p)
             => Observed(st'[p]) = Observed(st[p])]_vars

(* C2 (as claimed): right after deepCopy the copy holds the same record,   *)
(* the same keys in the four live caches and the four dirty sets, and an   *)
(* open handle with the same leaves for every trie open in the original.   *)
C2_CopyIsFaithful ==
    last.op = "deepCopy" =>
       /\ st["c"].data = st["s"].data
       /\ \A c \in CacheNames : DOMAIN st["c"][c] = DOMAIN st["s"][c]
       /\ \A c \in DirtyNames : st["c"][c] = st["s"][c]
       /\ \A t \in TrieNames :
             st["s"][t].open => st["c"][t].open /\ st["c"][t].leaves = st["s"][t].leaves

(* C3: a commit that finds an error memoized, before the call or by its    *)
(* own flush, returns the first memoized error, does not run the trie's    *)
(* Commit (the database is left as it was) and leaves its root field       *)
(* unchanged.                                                              *)
C3_CommitRefusesOnError ==
    [][\A p \in DOMAIN st :
          (left' = left - 1 /\ last'.ptr = p /\ last'.op \in CommitOps
             /\ st'[p].dbErr # NoErr)
             => /\ last'.err = st'[p].dbErr
                /\ st[p].dbErr # NoErr => last'.err = st[p].dbErr
                /\ db' = db
                /\ st'[p].data[CollectionOf(last'.op).root]
                      = st[p].data[CollectionOf(last'.op).root]]_vars

(* A commit has returned the memoized error although its trie, had it been *)
(* committed, would have given another root.                               *)
C3_Witness ==
    /\ last.op \in CommitOps
    /\ last.err # NoErr
    /\ last.err = st[last.ptr].dbErr
    /\ st[last.ptr].data[CollectionOf(last.op).root]
          # TrieHash(st[last.ptr][CollectionOf(last.op).trie])

(* C4 (as claimed): after update*Root the dirty set of that collection is  *)
(* empty.                                                                  *)
C4_UpdateRootClearsDirty ==
    last.op \in UpdateRootOps => st[last.ptr][CollectionOf(last.op).dirty] = {}

(* C5: update*Root changes only the leaves of its own trie at the keys     *)
(* that were in its own dirty set; the tries, live caches, dirty sets and  *)
(* root fields of the other three collections stay as they were.           *)
C5_UpdateRootFrame ==
    [][\A p \in DOMAIN st :
          (left' = left - 1 /\ last'.ptr = p /\ last'.op \in UpdateRootOps)
             => LET own == CollectionOf(last'.op)
                    before == LeavesOf(st[p], db, own)
                    after == st'[p][own.trie].leaves
                IN /\ \A k \in (DOMAIN before \cup DOMAIN after) \ st[p][own.dirty] :
                         /\ k \in DOMAIN before
                         /\ k \in DOMAIN after
                         /\ after[k] = before[k]
                   /\ \A other \in Collections \ {own} :
                         /\ st'[p][other.trie] = st[p][other.trie]
                         /\ st'[p][other.cache] = st[p][other.cache]
                         /\ st'[p][other.dirty] = st[p][other.dirty]
                         /\ st'[p].data[other.root] = st[p].data[other.root]]_vars

(* updateOrderRoot has written the one dirty item over the undecodable    *)
(* leaf at its key, and the other leaves are the stored ones.              *)
C5_Witness ==
    /\ last.op = "updateOrderRoot"
    /\ ~last.io
    /\ st[last.ptr].data.InvestingRoot = HashOf(DamagedLists)
    /\ st[last.ptr].lendingItemStatesDirty = {}
    /\ 1 \in DOMAIN st[last.ptr].lendingItemStates
    /\ DOMAIN st[last.ptr].lendingTrie.leaves = Keys
    /\ st[last.ptr].lendingTrie.leaves[1]
          = EncodeLendingItem(st[last.ptr].lendingItemStates[1].data)
    /\ \A k \in Keys \ {1} : st[last.ptr].lendingTrie.leaves[k] = DamagedItems[k]
    /\ st[last.ptr].data.LendingItemRoot = HashOf(st[last.ptr].lendingTrie.leaves)

(* The key a create call is made with; createLendingItem is given the key  *)
(* twice, as orderId and as order.OrderID, and the two agree.              *)
KeyedCreate(l) ==
    /\ l.op \in CreateOps
    /\ l.op = "createLendingItem" => l.obj # NilObj /\ BigToHash(l.obj.data.OrderID) = l.key

(* C6 (as claimed): after create*(k) the created object is the live-cache  *)
(* entry of its own collection under k, k is in that collection's dirty    *)
(* set, and the call has put k in no other dirty set.                      *)
C6_CreateCachesAndMarks ==
    [][\A p \in DOMAIN st :
          (left' = left - 1 /\ last'.ptr = p /\ KeyedCreate(last')
             /\ ~st'[p].panicked)
             => LET own == CollectionOf(last'.op)
                    k == last'.key
                IN /\ k \in DOMAIN st'[p][own.cache]
                   /\ st'[p][own.cache][k] = last'.obj
                   /\ k \in st'[p][own.dirty]
                   /\ \A other \in Collections \ {own} :
                         k \in st'[p][other.dirty] => k \in st[p][other.dirty]]_vars

(* C7 (as claimed): when create*(k) returns without a failed trie write,   *)
(* the owning trie holds at k the encoding of the created object.          *)
C7_CreateWritesLeaf ==
    (KeyedCreate(last) /\ ~last.io /\ ~st[last.ptr].panicked)
       => LET own == CollectionOf(last.op)
              tr == st[last.ptr][own.trie]
          IN /\ tr.open
             /\ last.key \in DOMAIN tr.leaves
             /\ tr.leaves[last.key] =
                   IF own = LendingItems THEN EncodeLendingItem(last.obj.data)
                   ELSE EncodeItemList(last.obj.data)

(* C8: when every leaf of the trie decodes, getBestInvestingRate and       *)
(* getLowestLiquidationTime return the least key present and               *)
(* getBestBorrowingRate the greatest; when the trie is empty or the query  *)
(* fails they return EmptyHash, and getLowestLiquidationTime no object.    *)
C8_Extremal ==
    last.op \in {"getBestInvestingRate", "getBestBorrowingRate", "getLowestLiquidationTime"}
       => LET leaves == st[last.ptr][CollectionOf(last.op).trie].leaves
          IN /\ (last.io \/ DOMAIN leaves = {})
                   => /\ last.ret = EmptyHash
                      /\ last.obj = NilObj
             /\ (~last.io /\ DOMAIN leaves # {} /\ \A k \in DOMAIN leaves : CanDecode(leaves[k]))
                   => /\ last.ret \in DOMAIN leaves
                      /\ \A k \in DOMAIN leaves :
                            IF last.op = "getBestBorrowingRate"
                            THEN k <= last.ret ELSE last.ret <= k
                      /\ last.op = "getLowestLiquidationTime" => last.obj # NilObj

(* getBestInvestingRate has returned the lesser of two keys present.       *)
C8_Witness ==
    /\ last.op = "getBestInvestingRate"
    /\ last.ret = 1
    /\ 2 \in DOMAIN st[last.ptr].investingTrie.leaves

(* C9 (as claimed): the first setNonce, create* or Mark*Dirty on an object *)
(* whose owner callback is set invokes it with the order book's id, and    *)
(* the callback is never invoked twice.                                    *)
C9_NotifiesOnce ==
    [][\A p \in DOMAIN st :
          /\ Len(st'[p].notified) <= 1
          /\ (left' = left - 1 /\ st[p].onDirty /\ ~st'[p].panicked
                /\ \/ last'.ptr = p /\ last'.op \in CreateOps \cup {"setNonce"}
                   \/ /\ last'.op \in {"setVolume", "setQuantity"}
                      /\ last'.obj.onDirty # NilCallback
                      /\ last'.obj.onDirty.self = p)
                => st'[p].notified = <<LendingBook>>]_vars

ErrOpen(trie) ==
    IF trie \in {"lendingTrie", "investingTrie"} THEN ErrLendingsTrie ELSE ErrBidsTrie

(* C10: once dbErr is set its value never changes; and dbErr becomes       *)
(* non-nil only in a call in which an error occurred: a failed trie access *)
(* or the opening of a trie whose root the database does not hold.         *)
C10_FirstErrorWins ==
    [][\A p \in DOMAIN st :
          /\ st[p].dbErr # NoErr => st'[p].dbErr = st[p].dbErr
          /\ (st[p].dbErr = NoErr /\ st'[p].dbErr # NoErr)
                => \/ last'.io /\ last'.ptr = p /\ st'[p].dbErr = ErrMissingNode
                   \/ \E c \in Collections :
                         /\ ~st[p][c.trie].open
                         /\ st'[p][c.trie].open
                         /\ OpenStorageTrie(db, st[p].data[c.root]).err # NoErr
                         /\ st'[p].dbErr = ErrOpen(c.trie)]_vars

(* The investing trie could not be opened, and later the borrowing trie    *)
(* could not either: the first error is the one kept.                      *)
C10_Witness ==
    /\ st["s"].dbErr = ErrLendingsTrie
    /\ st["s"].borrowingTrie.open
    /\ st["s"].data.BorrowingRoot = HashOf(PrunedLists)

(***************************************************************************)
(* Helpers of the properties below.                                        *)
(***************************************************************************)
GetOps ==
    {"getInvestingOrderList", "getBorrowingOrderList", "getLiquidationTimeOrderList",
     "getLendingItem"}

QueryOps ==
    GetOps \cup {"getBestInvestingRate", "getBestBorrowingRate", "getLowestLiquidationTime"}

ListCommitOps == CommitOps \ {"CommitLendingItemTrie"}

GetCollection(op) ==
    CASE op = "getInvestingOrderList" -> Investing
      [] op = "getBorrowingOrderList" -> Borrowing
      [] op = "getLiquidationTimeOrderList" -> LiquidationTimes
      [] op = "getLendingItem" -> LendingItems

DecodeFor(coll, enc) ==
    IF coll = LendingItems THEN DecodeLendingItem(enc) ELSE DecodeItemList(enc)

EncodeFor(coll, data) ==
    IF coll = LendingItems THEN EncodeLendingItem(data) ELSE EncodeItemList(data)

IsEmpty(coll, obj) == IF coll = LendingItems THEN itemEmpty(obj) ELSE listEmpty(obj)

(* The references a list commit owes for the leaves of the trie it has     *)
(* committed: one per decodable leaf whose Root is not the empty root.     *)
Pinned(tr) ==
    {<<DecodeItemList(tr.leaves[k]).Root, TrieHash(tr)>> :
        k \in {j \in DOMAIN tr.leaves :
                  CanDecode(tr.leaves[j]) /\ DecodeItemList(tr.leaves[j]).Root # EmptyRoot}}

(* C12: a list commit that goes through registers, for every leaf that     *)
(* decodes to a list whose Root is not the empty root, the reference from  *)
(* the leaf's parent to that Root, and none for the other leaves; an       *)
(* undecodable leaf does not make the commit fail.                         *)
C12_ReferencePinning ==
    [][\A p \in DOMAIN st :
          (left' = left - 1 /\ last'.ptr = p /\ last'.op \in ListCommitOps
             /\ st'[p].dbErr = NoErr /\ last'.err = NoErr)
             => db'.refs = db.refs \cup Pinned(st'[p][CollectionOf(last'.op).trie])]_vars

(* A list commit has succeeded on a trie with a leaf whose Root is the     *)
(* empty root and has registered the reference of the other leaf only.     *)
C12_Witness ==
    /\ last.op \in ListCommitOps
    /\ last.err = NoErr
    /\ LET tr == st[last.ptr][CollectionOf(last.op).trie]
       IN /\ \E k \in DOMAIN tr.leaves :
                CanDecode(tr.leaves[k]) /\ DecodeItemList(tr.leaves[k]).Root = EmptyRoot
          /\ db.refs = {<<StoredList.Root, TrieHash(tr)>>}

(* C13 (as claimed): a get returns the cached object without touching the  *)
(* trie; else it caches and returns a new object for a decodable leaf;     *)
(* else it returns nothing and leaves the caches and dirty sets alone; and *)
(* no later query replaces a live object, so that a later get of the key   *)
(* returns the same live object.                                           *)
C13_GetReturnsLiveObject ==
    [][\A p \in DOMAIN st :
          (left' = left - 1 /\ last'.ptr = p)
             => /\ last'.op \in GetOps =>
                     LET own == GetCollection(last'.op)
                         k == last'.key
                         leaves == LeavesOf(st[p], db, own)
                     IN IF k \in DOMAIN st[p][own.cache]
                        THEN last'.obj = st[p][own.cache][k] /\ st'[p] = st[p]
                        ELSE IF ~last'.io /\ k \in DOMAIN leaves /\ CanDecode(leaves[k])
                        THEN /\ last'.obj # NilObj
                             /\ last'.obj.data = DecodeFor(own, leaves[k])
                             /\ k \in DOMAIN st'[p][own.cache]
                             /\ st'[p][own.cache][k] = last'.obj
                        ELSE /\ last'.obj = NilObj
                             /\ \A c \in CacheNames \cup DirtyNames : st'[p][c] = st[p][c]
                /\ last'.op \in QueryOps =>
                     \A c \in CacheNames : \A k \in DOMAIN st[p][c] :
                        k \in DOMAIN st'[p][c] /\ st'[p][c][k] = st[p][c][k]]_vars

(* C15 (as claimed): when a cached object invokes its callback, its key is *)
(* added to the dirty set of the collection that holds the object, and no  *)
(* other dirty set of any object changes.                                  *)
C15_DirtyMarkersIndependent ==
    [][\A p \in DOMAIN st :
          (left' = left - 1 /\ last'.ptr = p /\ last'.op \in {"setVolume", "setQuantity"}
             /\ last'.obj.onDirty # NilCallback)
             => \A own \in Collections :
                   st'[p][own.cache] # st[p][own.cache]
                      => /\ last'.obj.key \in st'[p][own.dirty]
                         /\ \A q \in DOMAIN st : \A other \in Collections \ {own} :
                               st'[q][other.dirty] = st[q][other.dirty]]_vars

(* C16 (as claimed): after update*Root the root field equals the hash of   *)
(* the collection's trie.                                                  *)
C16_RootFieldIsTrieHash ==
    last.op \in UpdateRootOps
       => st[last.ptr].data[CollectionOf(last.op).root]
             = TrieHash(st[last.ptr][CollectionOf(last.op).trie])

C18_CommitFailsClosed ==
    [][\A p \in DOMAIN st :
          (left' = left - 1 /\ last'.ptr = p /\ last'.op \in CommitOps
             /\ st'[p].dbErr # NoErr /\ last'.err = st'[p].dbErr)
             => LET own == CollectionOf(last'.op)
                IN /\ st'[p][own.dirty] = st[p][own.dirty]
                   /\ st[p][own.trie].open
                         => st'[p][own.trie].leaves = st[p][own.trie].leaves]_vars

C20_DirtyKeysAreCached ==
    \A p \in DOMAIN st : \A c \in Collections :
       st[p][c.dirty] \subseteq DOMAIN st[p][c.cache]

(* C11: the record of a successful CommitInvestingTrie, loaded into a new  *)
(* object, gives back what was committed: getInvestingOrderList returns    *)
(* the list of the committed leaf at its rate (nothing at a rate without a *)
(* decodable leaf), and getBestInvestingRate the least committed rate.     *)
C11_PersistAndReload ==
    [][(left' = left - 1 /\ "r" \in DOMAIN st /\ last.op = "newStateExchanges"
          /\ last'.ptr = "r" /\ ~last'.io)
          => LET committed == st["s"].investingTrie.leaves
             IN /\ last'.op = "getInvestingOrderList" =>
                     IF last'.key \in DOMAIN committed /\ CanDecode(committed[last'.key])
                     THEN /\ last'.obj # NilObj
                          /\ last'.obj.data = DecodeItemList(committed[last'.key])
                     ELSE last'.obj = NilObj
                /\ last'.op = "getBestInvestingRate" =>
                     IF DOMAIN committed = {}
                     THEN last'.ret = EmptyHash
                     ELSE CanDecode(committed[MinOf(DOMAIN committed)])
                             => last'.ret = MinOf(DOMAIN committed)]_vars

(* On an order book that was new, the list created at a rate and made      *)
(* non-empty has been committed, and the reloaded object has returned a    *)
(* list with the same contents at that rate.                               *)
C11_Witness ==
    /\ "r" \in DOMAIN st
    /\ last.op = "getInvestingOrderList"
    /\ last.ptr = "r"
    /\ last.obj # NilObj
    /\ st["s"].data.BorrowingRoot = NoRoot
    /\ last.key \in DOMAIN st["s"].investingStates
    /\ last.obj.data.Volume > 0
    /\ last.obj.data = st["s"].investingStates[last.key].data

CreateOf(coll) ==
    IF coll = Investing THEN "createInvestingOrderList" ELSE "createBorrowingOrderList"

RemoveOf(coll) ==
    IF coll = Investing THEN "removeInvestingOrderList" ELSE "removeBorrowingOrderList"

UpdateRootOf(coll) ==
    IF coll = Investing THEN "updateInvestingRoot" ELSE "updateBorrowingRoot"

(* The receiver after update*Root with every trie write succeeding.        *)
AfterUpdateRoot(coll, self) ==
    IF coll = Investing THEN updateInvestingRoot(self, db, {}).self
    ELSE updateBorrowingRoot(self, db, {})

(* No cached key other than p awaits a flush.                              *)
OnlyDirty(coll, self, p) == (DOMAIN self[coll.cache]) \cap self[coll.dirty] \subseteq {p}

(* C14: when create*OrderList(p), with no leaf at p in the investing       *)
(* (borrowing) trie, is followed by remove*OrderList of that list, both    *)
(* without a failed trie access, the trie has the hash it had before the   *)
(* create and p is still in the live cache; update*Root, called then or    *)
(* after the remove with the list at p empty and no other key awaiting a   *)
(* flush, leaves the trie at that hash, which is the root it records       *)
(* (updateInvestingRoot records it when no error is memoized).             *)
C14_CreateRemoveRoundTrip ==
    [][\A coll \in {Investing, Borrowing} :
         /\ ( /\ last.op = CreateOf(coll) /\ ~last.io
              /\ last.tries[coll.trie].open
              /\ last.key \notin DOMAIN last.tries[coll.trie].leaves
              /\ last'.op = RemoveOf(coll) /\ ~last'.io
              /\ last'.ptr = last.ptr /\ last'.key = last.key )
            => LET before == TrieHash(last.tries[coll.trie])
                   self == st'[last.ptr]
               IN /\ TrieHash(self[coll.trie]) = before
                  /\ last.key \in DOMAIN self[coll.cache]
                  /\ IsEmpty(coll, self[coll.cache][last.key])
                  /\ OnlyDirty(coll, self, last.key)
                        => TrieHash(AfterUpdateRoot(coll, self)[coll.trie]) = before
         /\ ( /\ last.op = RemoveOf(coll) /\ ~last.io
              /\ last'.op = UpdateRootOf(coll) /\ ~last'.io
              /\ last'.ptr = last.ptr
              /\ IsEmpty(coll, st[last.ptr][coll.cache][last.key])
              /\ OnlyDirty(coll, st[last.ptr], last.key) )
            => LET self == st'[last.ptr]
               IN /\ TrieHash(self[coll.trie]) = TrieHash(st[last.ptr][coll.trie])
                  /\ (coll = Investing => self.dbErr = NoErr)
                        => self.data[coll.root] = TrieHash(self[coll.trie])
    ]_vars

(* A list created at a price without a leaf, in a trie that holds another  *)
(* price, has just been removed: the trie is back at its stored hash and   *)
(* the list is still cached.                                               *)
C14_Witness ==
    /\ last.op = "removeInvestingOrderList" /\ ~last.io
    /\ last.key \in DOMAIN last.tries.investingTrie.leaves
    /\ last.key \in DOMAIN st["s"].investingStates
    /\ last.key \in st["s"].investingStatesDirty
    /\ st["s"].investingStates[last.key].data = ZeroItemList
    /\ last.key # MaxKey
    /\ TrieHash(st["s"].investingTrie) = HashOf(SparseLists)

(* C21 (as claimed): no call ends in a nil-handle fault, whichever method  *)
(* is the first to be called on a newly constructed object.                *)
C21_NoNilHandleFault == \A p \in DOMAIN st : ~st[p].panicked

(* C22 (as claimed): when an object held in a live cache of the copy c     *)
(* changes and invokes the callback it holds, its key is in c's dirty set  *)
(* of that collection afterwards and c's owner callback has been used.     *)
C22_SnapshotFlushesOwnMutations ==
    [][(left' = left - 1 /\ last'.ptr = "c" /\ last'.op \in {"setVolume", "setQuantity"})
          => \A coll \in Collections : \A k \in DOMAIN st["c"][coll.cache] :
                ( /\ st'["c"][coll.cache][k] # st["c"][coll.cache][k]
                  /\ st["c"][coll.cache][k].onDirty # NilCallback )
                   => /\ k \in st'["c"][coll.dirty]
                      /\ ~st'["c"].onDirty]_vars

(* C23 (as claimed): when getLowestLiquidationTime returns a time that was *)
(* already in the live cache, the object it returns and the cache entry    *)
(* hold the content the cached object had before the call.                 *)
C23_LowestKeepsPendingMutations ==
    [][\A p \in DOMAIN st :
          ( /\ left' = left - 1 /\ last'.ptr = p
            /\ last'.op = "getLowestLiquidationTime"
            /\ last'.ret \in DOMAIN st[p].liquidationTimeStates )
             => LET cached == st[p].liquidationTimeStates[last'.ret]
                IN /\ last'.obj # NilObj
                   /\ last'.obj.data = cached.data
                   /\ st'[p].liquidationTimeStates[last'.ret].data = cached.data]_vars

(* C24 (as claimed): a commit that ends with no error memoized and none    *)
(* from the trie has recorded the committed trie's root in its root field  *)
(* and left its dirty set empty; one whose trie commit fails returns that  *)
(* error and leaves the root field as it was.                              *)
C24_CommitRecordsRoot ==
    [][\A p \in DOMAIN st :
          (left' = left - 1 /\ last'.ptr = p /\ last'.op \in CommitOps
             /\ st'[p].dbErr = NoErr)
             => LET own == CollectionOf(last'.op)
                IN IF last'.err = NoErr
                   THEN /\ st'[p].data[own.root] = TrieHash(st'[p][own.trie])
                        /\ st'[p][own.dirty] = {}
                   ELSE /\ last'.err = ErrCommit
                        /\ st'[p].data[own.root] = st[p].data[own.root]]_vars

====
